---- MODULE Spec2Model ----
(***************************************************************************)
(* A model of gameshopui: the schema hierarchy resolver of src/table.rs    *)
(* (TableNode::into_trees, construct_leaves, pop_outer_leaves,             *)
(* TableDefinition::from_vec and get), the typed value model               *)
(* (ColumnValue::try_from_value and try_from_str), the filters and the     *)
(* row requests of src/api.rs (Comp, Filter, Client::get) and the          *)
(* application of src/main.rs (State::update and the views).  Each part    *)
(* has its own specification; the variables of the other parts stay idle.  *)
(***************************************************************************)
EXTENDS Integers, Sequences, FiniteSets, TLC

VARIABLES
    pc,         \* position of the schema pipeline: "start", "trees", "defs", "got"
    input,      \* the Vec<Table> of the schema response
    trees,      \* first component of TableNode::into_trees(input)
    rest,       \* second component of TableNode::into_trees(input): the leftover
    defs,       \* TableDefinition::from_vec(input)
    lookup,     \* the last TableDefinition::get call and what it returned
    vpc,        \* position of the value pipeline: "column", "value", "typed",
                \* "panic", or "text", "parsed"
    column_value, \* the ColumnValue a round trip starts from, None without one
    value,      \* an untyped serde_json::Value
    column,     \* the TableColumn given to try_from_str, None without one
    text,       \* the &str given to try_from_str, None without one
    result,     \* what try_from_value(value) or try_from_str(column, text) returned
    fpc,        \* position of the filter pipeline: "filter", "serialized", "panic"
    filter,     \* a Filter: the HashMap<String, Comp<ColumnValue>> it wraps
    inserts,    \* the Filter::insert calls made so far, as <<column, comp>>
    filter_json,\* serde_json::to_string(&filter)
    gpc,        \* position of Client::get: "call", "sent", "done", "panic"
    get_table,  \* the table_name given to Client::get
    selection,  \* the Selection given to Client::get
    request,    \* the request Client::get sends: its url and body
    response,   \* what the service answers
    get_result, \* Result<Vec<TableEntry>, Error> that Client::get returns
    cpc,        \* position of the stepwise from_vec: "from_vec", "into_trees", "map", "done"
    call_input, \* the Vec<Table> given to from_vec
    tables_left,\* the tables of into_trees, as construct_leaves extracts from it
    frames,     \* the call stack of construct_leaves or of pop_outer_leaves
    depth,      \* the deepest recursion of each of the two so far
    call_trees, \* the trees into_trees returned
    call_defs,  \* the definitions from_vec has collected
    app,        \* the State of the application: State::Connect or State::View
    tasks,      \* the requests issued and not yet answered, in order of issue
    panicked,   \* the unreachable!() that State::update ran into, if any
    delivered   \* the message State::update handled last, if any

tableVars == <<pc, input, trees, rest, defs, lookup>>
valueVars == <<vpc, column_value, value, column, text, result>>
filterVars == <<fpc, filter, inserts, filter_json>>
getVars == <<gpc, get_table, selection, request, response, get_result>>
callVars == <<cpc, call_input, tables_left, frames, depth, call_trees, call_defs>>
uiVars == <<app, tasks, panicked, delivered>>
vars == <<tableVars, valueVars, filterVars, getVars, callVars, uiVars>>
exceptTableVars == <<valueVars, filterVars, getVars, callVars, uiVars>>
exceptValueVars == <<tableVars, filterVars, getVars, callVars, uiVars>>
exceptFilterVars == <<tableVars, valueVars, getVars, callVars, uiVars>>
exceptGetVars == <<tableVars, valueVars, filterVars, callVars, uiVars>>
exceptCallVars == <<tableVars, valueVars, filterVars, getVars, uiVars>>
exceptUiVars == <<tableVars, valueVars, filterVars, getVars, callVars>>

(***************************************************************************)
(* Option<T>                                                               *)
(***************************************************************************)
None == [some |-> FALSE]
Some(v) == [some |-> TRUE, val |-> v]

(***************************************************************************)
(* Bounds and input domains                                                *)
(***************************************************************************)
MaxTables == 3

\* table identifiers (Table::table); an identifier that no table of the
\* input carries is a reference to a table that does not exist
TableIds == {"A", "B", "C"}

\* TableColumn, reduced to the fields the resolver reads
Column(pk, fks) == [primary_key |-> pk, foreign_keys |-> fks]

\* TableColumnForeignKey, reduced to the referenced table identifier
ForeignKeyLists == {<<>>, <<"A">>, <<"B">>, <<"A", "B">>}

\* the column lists of the input tables: no column, one primary-key column,
\* and a primary-key column after a plain one and before a second one
ColumnLists ==
    {<<>>}
        \cup {<<Column(TRUE, f)>> : f \in ForeignKeyLists}
        \cup {<<Column(FALSE, <<"A">>), Column(TRUE, <<>>), Column(TRUE, <<"B">>)>>}

Tables == [table : TableIds, columns : ColumnLists]

SeqsUpTo(S, n) == UNION {[1..k -> S] : k \in 0..n}

(***************************************************************************)
(* Sequence helpers                                                        *)
(***************************************************************************)
RECURSIVE Flatten(_)
Flatten(ss) == IF ss = <<>> THEN <<>> ELSE Head(ss) \o Flatten(Tail(ss))

Range(s) == {s[i] : i \in 1..Len(s)}

Count(x, s) == Cardinality({i \in 1..Len(s) : s[i] = x})

Min(S) == CHOOSE m \in S : \A n \in S : m <= n

(***************************************************************************)
(* src/table.rs: the schema graph builder                                  *)
(***************************************************************************)
\* table.columns.iter().find(|column| column.primary_key)
PrimaryKey(table) ==
    LET idx == {i \in 1..Len(table.columns) : table.columns[i].primary_key}
    IN  IF idx = {} THEN None ELSE Some(table.columns[Min(idx)])

IsBaseNoKey(table) ==
    LET id == PrimaryKey(table)
    IN  IF id.some THEN id.val.foreign_keys = <<>> ELSE TRUE

IsBaseAnyKey(table) == PrimaryKey(table).some

\* the closure of into_trees: .map_or(false, |column| column.foreign_keys.is_empty())
IsBase(table) ==
    LET id == PrimaryKey(table)
    IN  IF id.some THEN id.val.foreign_keys = <<>> ELSE FALSE

\* the closure of construct_leaves: the primary key has a foreign key to the node
IsLeafOf(node, table) ==
    LET id == PrimaryKey(table)
    IN  IF id.some
        THEN \E k \in 1..Len(id.val.foreign_keys) : id.val.foreign_keys[k] = node.table
        ELSE FALSE

RECURSIVE construct_leaves(_, _), construct_each(_, _)

construct_leaves_flat(node, tables) ==
    LET leaves == SelectSeq(tables, LAMBDA t : IsLeafOf(node, t))
        remain == SelectSeq(tables, LAMBDA t : ~IsLeafOf(node, t))
    IN  [nodes |-> [i \in 1..Len(leaves) |-> [node |-> leaves[i], leaves |-> <<>>]],
         tables |-> remain]

\* construct_leaves: extract the leaves of node from tables, then construct
\* the leaves of each leaf, in order, from what is still left
construct_leaves(node, tables) ==
    LET leaves == SelectSeq(tables, LAMBDA t : IsLeafOf(node, t))
        remain == SelectSeq(tables, LAMBDA t : ~IsLeafOf(node, t))
    IN  construct_each(leaves, remain)

\* the .map(|table| TableNode { leaves: construct_leaves(&table, tables), .. })
\* of construct_leaves and of into_trees, threading the shrinking tables
construct_each(nodes, tables) ==
    IF nodes = <<>>
    THEN [nodes |-> <<>>, tables |-> tables]
    ELSE LET first == construct_leaves(Head(nodes), tables)
             others == construct_each(Tail(nodes), first.tables)
         IN  [nodes |-> <<[node |-> Head(nodes), leaves |-> first.nodes]>> \o others.nodes,
              tables |-> others.tables]

into_trees_keep(tables) ==
    LET bases == SelectSeq(tables, IsBase)
        built == construct_each(bases, SelectSeq(tables, LAMBDA t : ~IsBase(t)))
    IN  [trees |-> built.nodes, tables |-> tables]

\* TableNode::into_trees
into_trees(tables) ==
    LET bases == SelectSeq(tables, IsBase)
        remain == SelectSeq(tables, LAMBDA t : ~IsBase(t))
        built == construct_each(bases, remain)
    IN  [trees |-> built.nodes, tables |-> built.tables]

(***************************************************************************)
(* src/table.rs: the hierarchy flattener                                   *)
(***************************************************************************)
RECURSIVE pop_outer_leaves(_)

pop_outer_leaves_direct(self) ==
    IF self.leaves = <<>>
    THEN [ret |-> None, self |-> self]
    ELSE [ret |-> Some([i \in 1..Len(self.leaves) |-> self.leaves[i].node]),
          self |-> [node |-> self.node, leaves |-> <<>>]]

pop_outer_leaves_twice(self) ==
    IF self.leaves = <<>>
    THEN [ret |-> None, self |-> self]
    ELSE LET popped == [i \in 1..Len(self.leaves) |-> pop_outer_leaves(self.leaves[i])]
             child_leaves ==
                 Flatten([i \in 1..Len(popped) |->
                     IF popped[i].ret.some THEN popped[i].ret.val ELSE <<>>])
             empty_leaves ==
                 Flatten([i \in 1..Len(popped) |->
                     IF popped[i].ret.some THEN <<>> ELSE <<self.leaves[i].node>>])
         IN  [ret |-> Some(child_leaves \o empty_leaves \o empty_leaves),
              self |-> [node |-> self.node, leaves |-> <<>>]]

\* TableNode::pop_outer_leaves(&mut self): ret is the returned Option, self
\* is the node as the call leaves it (the terminal leaves extracted)
pop_outer_leaves(self) ==
    IF self.leaves = <<>>
    THEN [ret |-> None, self |-> self]
    ELSE LET popped == [i \in 1..Len(self.leaves) |-> pop_outer_leaves(self.leaves[i])]
             \* Some(leaves) => child_leaves.extend(leaves), the leaf is kept
             child_leaves ==
                 Flatten([i \in 1..Len(popped) |->
                     IF popped[i].ret.some THEN popped[i].ret.val ELSE <<>>])
             \* None => the leaf is extracted, .map(|node| node.node)
             empty_leaves ==
                 Flatten([i \in 1..Len(popped) |->
                     IF popped[i].ret.some THEN <<>> ELSE <<self.leaves[i].node>>])
             kept ==
                 Flatten([i \in 1..Len(popped) |->
                     IF popped[i].ret.some THEN <<popped[i].self>> ELSE <<>>])
         IN  [ret |-> Some(child_leaves \o empty_leaves),
              self |-> [node |-> self.node, leaves |-> kept]]

(***************************************************************************)
(* src/table.rs: TableDefinition                                           *)
(***************************************************************************)
Single(table) == [variant |-> "Single", table |-> table]
Family(base, leaves) == [variant |-> "Family", base |-> base, leaves |-> leaves]

from_vec_family(tables) ==
    LET trees_ == into_trees(tables).trees
    IN  [i \in 1..Len(trees_) |->
            LET popped == pop_outer_leaves(trees_[i])
            IN  Family(popped.self.node,
                       IF popped.ret.some THEN popped.ret.val ELSE <<>>)]

\* TableDefinition::from_vec: the leftover of into_trees is bound to _
from_vec(tables) ==
    LET trees_ == into_trees(tables).trees
    IN  [i \in 1..Len(trees_) |->
            LET popped == pop_outer_leaves(trees_[i])
            IN  IF popped.ret.some
                THEN Family(popped.self.node, popped.ret.val)
                ELSE Single(popped.self.node)]

\* TableDefinition::get_base
get_base(self) == IF self.variant = "Single" THEN self.table ELSE self.base

\* TableDefinition::get_leaves
get_leaves(self) == IF self.variant = "Single" THEN None ELSE Some(self.leaves)

\* leaves.iter().find(|table| table.table == table_name)
RECURSIVE find_table(_, _)
find_table(leaves, table_name) ==
    IF leaves = <<>> THEN None
    ELSE IF Head(leaves).table = table_name THEN Some(Head(leaves))
    ELSE find_table(Tail(leaves), table_name)

get_base_only(self, table_name) ==
    LET base == get_base(self)
    IN  IF base.table = table_name THEN Some(base) ELSE None

get_leaves_first(self, table_name) ==
    LET base == get_base(self)
        leaves == get_leaves(self)
        found == IF leaves.some THEN find_table(leaves.val, table_name) ELSE None
    IN  IF found.some THEN found
        ELSE IF base.table = table_name THEN Some(base) ELSE None

\* TableDefinition::get
get(self, table_name) ==
    LET base == get_base(self)
        leaves == get_leaves(self)
    IN  IF base.table = table_name
        THEN Some(base)
        ELSE IF leaves.some THEN find_table(leaves.val, table_name) ELSE None

(***************************************************************************)
(* The schema pipeline: a schema response is resolved into trees, then     *)
(* into definitions, and the definitions are looked up                     *)
(***************************************************************************)
NoLookup == [called |-> FALSE]

ValueIdle ==
    /\ vpc = "off"
    /\ column_value = None
    /\ value = None
    /\ column = None
    /\ text = None
    /\ result = None

FilterIdle ==
    /\ fpc = "off"
    /\ filter = <<>>
    /\ inserts = <<>>
    /\ filter_json = None

GetIdle ==
    /\ gpc = "off"
    /\ get_table = None
    /\ selection = None
    /\ request = None
    /\ response = None
    /\ get_result = None

NoDepth == [construct_leaves |-> 0, pop_outer_leaves |-> 0]

CallsIdle ==
    /\ cpc = "off"
    /\ call_input = <<>>
    /\ tables_left = <<>>
    /\ frames = <<>>
    /\ depth = NoDepth
    /\ call_trees = <<>>
    /\ call_defs = <<>>

UiIdle ==
    /\ app = None
    /\ tasks = <<>>
    /\ panicked = None
    /\ delivered = None

Init ==
    /\ pc = "start"
    /\ input \in SeqsUpTo(Tables, MaxTables)
    /\ trees = <<>>
    /\ rest = <<>>
    /\ defs = <<>>
    /\ lookup = NoLookup
    /\ ValueIdle
    /\ FilterIdle
    /\ GetIdle
    /\ CallsIdle
    /\ UiIdle

\* TableNode::into_trees(input)
IntoTrees ==
    /\ pc = "start"
    /\ LET r == into_trees(input)
       IN  /\ trees' = r.trees
           /\ rest' = r.tables
    /\ pc' = "trees"
    /\ UNCHANGED <<input, defs, lookup, exceptTableVars>>

\* TableDefinition::from_vec(input)
FromVec ==
    /\ pc = "trees"
    /\ defs' = from_vec(input)
    /\ pc' = "defs"
    /\ UNCHANGED <<input, trees, rest, lookup, exceptTableVars>>

\* TableDefinition::get(&self, table_name) on one of the definitions
Get(i, table_name) ==
    /\ pc = "defs"
    /\ i \in 1..Len(defs)
    /\ lookup' = [called |-> TRUE, self |-> defs[i], index |-> i,
                  table_name |-> table_name, ret |-> get(defs[i], table_name)]
    /\ pc' = "got"
    /\ UNCHANGED <<input, trees, rest, defs, exceptTableVars>>

Next ==
    \/ IntoTrees
    \/ FromVec
    \/ \E i \in 1..MaxTables, table_name \in TableIds : Get(i, table_name)

Spec == Init /\ [][Next]_vars

(***************************************************************************)
(* src/table.rs: the typed value model.  The 64-bit integers and the       *)
(* 53-bit significand of f64 are scaled down to IntBits and MantBits; a    *)
(* finite f64 is held as a count of halves, so 5.0 is 10 and 1.5 is 3      *)
(***************************************************************************)
IntBits == 6
MantBits == 4

RECURSIVE Pow2(_)
Pow2(n) == IF n = 0 THEN 1 ELSE 2 * Pow2(n - 1)

I64Min == -Pow2(IntBits - 1)
I64Max == Pow2(IntBits - 1) - 1
U64Max == Pow2(IntBits) - 1

Abs(n) == IF n < 0 THEN -n ELSE n

\* f64
Finite(halves) == [class |-> "finite", halves |-> halves]
NaN == [class |-> "nan"]
Infinity == [class |-> "inf"]

\* f64 == f64: NaN equals nothing
F64Eq(a, b) == a.class # "nan" /\ b.class # "nan" /\ a = b

\* `n as f64`: the integer rounded to MantBits significant bits, ties to even
RECURSIVE UnitOf(_, _)
UnitOf(m, unit) == IF m < unit * Pow2(MantBits) THEN unit ELSE UnitOf(m, 2 * unit)

IntAsF64(n) ==
    LET m == Abs(n)
        unit == UnitOf(m, 1)
        q == m \div unit
        r == m % unit
        up == 2 * r > unit \/ (2 * r = unit /\ q % 2 = 1)
        rounded == (IF up THEN q + 1 ELSE q) * unit
    IN  Finite(2 * (IF n < 0 THEN -rounded ELSE rounded))

\* `n as i64` of a u64
U64AsI64(n) == IF n > I64Max THEN n - Pow2(IntBits) ELSE n

\* serde_json::Number
PosInt(n) == [n |-> "PosInt", int |-> n]
NegInt(n) == [n |-> "NegInt", int |-> n]
Float(f) == [n |-> "Float", float |-> f]

\* Number::from(i64)
NumberFromI64(n) == IF n < 0 THEN NegInt(n) ELSE PosInt(n)

\* Number::from_f64: None for a float that is not finite
NumberFromF64(f) == IF f.class = "finite" THEN Some(Float(f)) ELSE None

\* Number::as_f64
as_f64(number) ==
    IF number.n = "Float" THEN Some(number.float) ELSE Some(IntAsF64(number.int))

\* Number::as_i64
as_i64(number) ==
    CASE number.n = "PosInt" ->
            IF number.int <= I64Max THEN Some(number.int) ELSE None
      [] number.n = "NegInt" -> Some(number.int)
      [] OTHER -> None

\* Number::as_u64
as_u64(number) == IF number.n = "PosInt" THEN Some(number.int) ELSE None

\* serde_json::Value
ValueNull == [kind |-> "Null"]
ValueBool(b) == [kind |-> "Bool", bool |-> b]
ValueNumber(number) == [kind |-> "Number", number |-> number]
ValueString(str) == [kind |-> "String", string |-> str]
ValueArray(items) == [kind |-> "Array", items |-> items]
ValueObject(keys) == [kind |-> "Object", keys |-> keys]

\* ColumnValue
CvBool(b) == [variant |-> "Bool", bool |-> b]
CvInt(n) == [variant |-> "Int", int |-> n]
CvFloat(f) == [variant |-> "Float", float |-> f]
CvString(str) == [variant |-> "String", string |-> str]

\* impl PartialEq for ColumnValue
ColumnValueEq(self, other) ==
    CASE self.variant = "Bool" /\ other.variant = "Bool" -> self.bool = other.bool
      [] self.variant = "Int" /\ other.variant = "Int" -> self.int = other.int
      [] self.variant = "Float" /\ other.variant = "Float" -> F64Eq(self.float, other.float)
      [] self.variant = "String" /\ other.variant = "String" -> self.string = other.string
      [] OTHER -> FALSE

\* Result<T, E>; Panicked stands for a call that unwinds instead of returning
Ok(v) == [ok |-> TRUE, val |-> v]
Err(e) == [ok |-> FALSE, err |-> e]
Panicked == [panic |-> TRUE]
Unit == <<>>

ValueFromBoolAsText(cv) ==
    CASE cv.variant = "Bool" -> ValueString(IF cv.bool THEN "true" ELSE "false")
      [] cv.variant = "Int" -> ValueNumber(NumberFromI64(cv.int))
      [] cv.variant = "Float" ->
            IF NumberFromF64(cv.float).some
            THEN ValueNumber(NumberFromF64(cv.float).val)
            ELSE Panicked
      [] cv.variant = "String" -> ValueString(cv.string)

\* impl From<ColumnValue> for Value
ValueFrom(cv) ==
    CASE cv.variant = "Bool" -> ValueBool(cv.bool)
      [] cv.variant = "Int" -> ValueNumber(NumberFromI64(cv.int))
      [] cv.variant = "Float" ->
            IF NumberFromF64(cv.float).some
            THEN ValueNumber(NumberFromF64(cv.float).val)
            ELSE Panicked
      [] cv.variant = "String" -> ValueString(cv.string)

try_from_value_int_first(v) ==
    CASE v.kind = "Null" -> Ok(None)
      [] v.kind = "Bool" -> Ok(Some(CvBool(v.bool)))
      [] v.kind = "Number" ->
            IF as_i64(v.number).some THEN Ok(Some(CvInt(as_i64(v.number).val)))
            ELSE IF as_f64(v.number).some THEN Ok(Some(CvFloat(as_f64(v.number).val)))
            ELSE Panicked
      [] v.kind = "String" -> Ok(Some(CvString(v.string)))
      [] v.kind = "Array" -> Err(Unit)
      [] v.kind = "Object" -> Err(Unit)

try_from_value_unreachable(v) ==
    CASE v.kind = "Null" -> Ok(None)
      [] v.kind = "Bool" -> Ok(Some(CvBool(v.bool)))
      [] v.kind = "Number" ->
            IF as_f64(v.number).some THEN Ok(Some(CvFloat(as_f64(v.number).val)))
            ELSE Panicked
      [] v.kind = "String" -> Ok(Some(CvString(v.string)))
      [] v.kind = "Array" -> Panicked
      [] v.kind = "Object" -> Panicked

\* ColumnValue::try_from_value
try_from_value(v) ==
    CASE v.kind = "Null" -> Ok(None)
      [] v.kind = "Bool" -> Ok(Some(CvBool(v.bool)))
      [] v.kind = "Number" ->
            IF as_f64(v.number).some THEN Ok(Some(CvFloat(as_f64(v.number).val)))
            ELSE IF as_i64(v.number).some THEN Ok(Some(CvInt(as_i64(v.number).val)))
            ELSE IF as_u64(v.number).some
                 THEN Ok(Some(CvInt(U64AsI64(as_u64(v.number).val))))
                 ELSE Panicked
      [] v.kind = "String" -> Ok(Some(CvString(v.string)))
      [] v.kind = "Array" -> Err(Unit)
      [] v.kind = "Object" -> Err(Unit)

(***************************************************************************)
(* src/table.rs: ColumnValue::try_from_str.  A text is a string; Chars     *)
(* gives its characters, which the parsers of bool, i64 and f64 read       *)
(***************************************************************************)
ColumnTypes == {"Bool", "Int", "Float", "String"}

\* ColumnParseError
ValueError == "ValueError"
Empty == "Empty"
ParseError == "ParseError"

\* ColumnValue::ty
ty(self) ==
    CASE self.variant = "Bool" -> "Bool"
      [] self.variant = "Int" -> "Int"
      [] self.variant = "Float" -> "Float"
      [] self.variant = "String" -> "String"

\* the texts a user enters
Texts ==
    {"", "true", "false", "True", "5", "-7", "+5", "12", "99", "1.5", ".5", "5.",
     "-", ".", "abc", "inf", "NaN", " 5"}

Chars(str) ==
    CASE str = "" -> <<>>
      [] str = "true" -> <<"t", "r", "u", "e">>
      [] str = "false" -> <<"f", "a", "l", "s", "e">>
      [] str = "True" -> <<"T", "r", "u", "e">>
      [] str = "5" -> <<"5">>
      [] str = "-7" -> <<"-", "7">>
      [] str = "+5" -> <<"+", "5">>
      [] str = "12" -> <<"1", "2">>
      [] str = "99" -> <<"9", "9">>
      [] str = "1.5" -> <<"1", ".", "5">>
      [] str = ".5" -> <<".", "5">>
      [] str = "5." -> <<"5", ".">>
      [] str = "-" -> <<"-">>
      [] str = "." -> <<".">>
      [] str = "abc" -> <<"a", "b", "c">>
      [] str = "inf" -> <<"i", "n", "f">>
      [] str = "NaN" -> <<"N", "a", "N">>
      [] str = " 5" -> <<" ", "5">>

Digits == {"0", "1", "2", "3", "4", "5", "6", "7", "8", "9"}

DigitValue(c) ==
    CASE c = "0" -> 0 [] c = "1" -> 1 [] c = "2" -> 2 [] c = "3" -> 3 [] c = "4" -> 4
      [] c = "5" -> 5 [] c = "6" -> 6 [] c = "7" -> 7 [] c = "8" -> 8 [] c = "9" -> 9

AllDigits(cs) == \A i \in 1..Len(cs) : cs[i] \in Digits

\* the number a sequence of decimal digits writes
RECURSIVE Decimal(_)
Decimal(cs) ==
    IF cs = <<>> THEN 0
    ELSE 10 * Decimal(SubSeq(cs, 1, Len(cs) - 1)) + DigitValue(cs[Len(cs)])

RECURSIVE Pow10(_)
Pow10(n) == IF n = 0 THEN 1 ELSE 10 * Pow10(n - 1)

\* a leading sign and what follows it
Negative(cs) == cs # <<>> /\ Head(cs) = "-"
Unsigned(cs) == IF cs # <<>> /\ Head(cs) \in {"+", "-"} THEN Tail(cs) ELSE cs

\* <bool as FromStr>::from_str
ParseBool(cs) ==
    IF cs = <<"t", "r", "u", "e">> THEN Some(TRUE)
    ELSE IF cs = <<"f", "a", "l", "s", "e">> THEN Some(FALSE)
    ELSE None

\* <i64 as FromStr>::from_str: a sign, then digits; None out of range
ParseI64(cs) ==
    LET digits == Unsigned(cs)
        n == IF Negative(cs) THEN -Decimal(digits) ELSE Decimal(digits)
    IN  IF digits = <<>> \/ ~AllDigits(digits) THEN None
        ELSE IF n < I64Min \/ n > I64Max THEN None
        ELSE Some(n)

\* the f64 nearest to a count of halves: MantBits significant bits, ties to even
F64OfHalves(h) ==
    LET m == Abs(h)
        unit == UnitOf(m, 1)
        q == m \div unit
        r == m % unit
        up == 2 * r > unit \/ (2 * r = unit /\ q % 2 = 1)
        rounded == (IF up THEN q + 1 ELSE q) * unit
    IN  Finite(IF h < 0 THEN -rounded ELSE rounded)

\* <f64 as FromStr>::from_str, for a sign, digits and a point, "inf" and "NaN"
ParseF64(cs) ==
    LET body == Unsigned(cs)
        points == {i \in 1..Len(body) : body[i] = "."}
        point == IF points = {} THEN Len(body) + 1 ELSE Min(points)
        whole == SubSeq(body, 1, point - 1)
        frac == SubSeq(body, point + 1, Len(body))
        halves == 2 * Decimal(whole)
                      + (4 * Decimal(frac) + Pow10(Len(frac))) \div (2 * Pow10(Len(frac)))
    IN  IF body = <<"i", "n", "f">> THEN Some(Infinity)
        ELSE IF body = <<"N", "a", "N">> THEN Some(NaN)
        ELSE IF whole = <<>> /\ frac = <<>> THEN None
        ELSE IF ~AllDigits(whole) \/ ~AllDigits(frac) THEN None
        ELSE Some(F64OfHalves(IF Negative(cs) THEN -halves ELSE halves))

\* the fields of TableColumn that try_from_str reads
TextColumn(type, optional) == [ty |-> type, optional |-> optional]
TextColumns == [ty : ColumnTypes, optional : BOOLEAN]

try_from_str_type_first(col, val) ==
    IF val = ""
    THEN IF col.ty = "String" THEN Ok(Some(CvString("")))
         ELSE IF col.optional THEN Ok(None)
         ELSE Err(Empty)
    ELSE Ok(Some(CvString(val)))

try_from_str_lenient(col, val) ==
    IF val = "" THEN Err(Empty)
    ELSE IF col.ty = "String" THEN Ok(Some(CvString(val)))
    ELSE IF ParseF64(Chars(val)).some THEN Ok(Some(CvFloat(ParseF64(Chars(val)).val)))
    ELSE Err(ValueError)

\* ColumnValue::try_from_str
try_from_str(col, val) ==
    IF val = ""
    THEN IF col.optional THEN Ok(None)
         ELSE IF col.ty = "String" THEN Ok(Some(CvString("")))
         ELSE Err(Empty)
    ELSE LET parsed ==
                 CASE col.ty = "Bool" ->
                        IF ParseBool(Chars(val)).some
                        THEN Ok(CvBool(ParseBool(Chars(val)).val))
                        ELSE Err(ParseError)
                   [] col.ty = "Int" ->
                        IF ParseI64(Chars(val)).some
                        THEN Ok(CvInt(ParseI64(Chars(val)).val))
                        ELSE Err(ParseError)
                   [] col.ty = "Float" ->
                        IF ParseF64(Chars(val)).some
                        THEN Ok(CvFloat(ParseF64(Chars(val)).val))
                        ELSE Err(ParseError)
                   [] col.ty = "String" -> Ok(CvString(val))
         IN  IF parsed.ok THEN Ok(Some(parsed.val)) ELSE parsed

(***************************************************************************)
(* The value pipeline: an untyped value is typed; a typed value is made    *)
(* untyped and typed again                                                 *)
(***************************************************************************)
Strings == {"", "a", "true", "5", "1.5"}

\* f64 values: every half between the i64 bounds, NaN and infinity
Floats == {Finite(h) : h \in 2 * I64Min..2 * I64Max} \cup {NaN, Infinity}

Numbers ==
    {PosInt(n) : n \in 0..U64Max}
        \cup {NegInt(n) : n \in I64Min..-1}
        \cup {Float(f) : f \in {g \in Floats : g.class = "finite"}}

Scalars ==
    {ValueNull} \cup {ValueBool(b) : b \in BOOLEAN}
        \cup {ValueNumber(n) : n \in Numbers}
        \cup {ValueString(str) : str \in Strings}

Values ==
    Scalars \cup {ValueArray(<<>>), ValueArray(<<ValueNull>>),
                  ValueArray(<<ValueNumber(PosInt(5))>>),
                  ValueObject({}), ValueObject({"id"})}

ColumnValues ==
    {CvBool(b) : b \in BOOLEAN} \cup {CvInt(n) : n \in I64Min..I64Max}
        \cup {CvFloat(f) : f \in Floats} \cup {CvString(str) : str \in Strings}

TablesIdle ==
    /\ pc = "off"
    /\ input = <<>>
    /\ trees = <<>>
    /\ rest = <<>>
    /\ defs = <<>>
    /\ lookup = NoLookup

InitValue ==
    /\ TablesIdle
    /\ FilterIdle
    /\ GetIdle
    /\ CallsIdle
    /\ UiIdle
    /\ result = None
    /\ \/ /\ vpc = "value"
          /\ column_value = None
          /\ value \in Values
          /\ column = None
          /\ text = None
       \/ /\ vpc = "column"
          /\ column_value \in {Some(cv) : cv \in ColumnValues}
          /\ value = None
          /\ column = None
          /\ text = None
       \/ /\ vpc = "text"
          /\ column_value = None
          /\ value = None
          /\ column \in {Some(c) : c \in TextColumns}
          /\ text \in {Some(t) : t \in Texts}

\* Value::from(column_value)
IntoValue ==
    /\ vpc = "column"
    /\ LET v == ValueFrom(column_value.val)
       IN  IF v = Panicked
           THEN vpc' = "panic" /\ value' = value
           ELSE vpc' = "value" /\ value' = v
    /\ UNCHANGED <<column_value, column, text, result, exceptValueVars>>

\* ColumnValue::try_from_value(value)
TryFromValue ==
    /\ vpc = "value"
    /\ LET r == try_from_value(value)
       IN  IF r = Panicked
           THEN vpc' = "panic" /\ result' = result
           ELSE vpc' = "typed" /\ result' = r
    /\ UNCHANGED <<column_value, value, column, text, exceptValueVars>>

\* ColumnValue::try_from_str(column, text)
TryFromStr ==
    /\ vpc = "text"
    /\ result' = try_from_str(column.val, text.val)
    /\ vpc' = "parsed"
    /\ UNCHANGED <<column_value, value, column, text, exceptValueVars>>

NextValue ==
    \/ IntoValue
    \/ TryFromValue
    \/ TryFromStr

SpecValue == InitValue /\ [][NextValue]_vars

(***************************************************************************)
(* src/api.rs: Comp and Filter.  A Filter is the map it wraps, held as a   *)
(* function from the column names it has a comparison for                  *)
(***************************************************************************)
Le(v) == [variant |-> "Le", value |-> v]
Ge(v) == [variant |-> "Ge", value |-> v]
Leq(v) == [variant |-> "Leq", value |-> v]
Geq(v) == [variant |-> "Geq", value |-> v]
Eq(v) == [variant |-> "Eq", value |-> v]
Neq(v) == [variant |-> "Neq", value |-> v]
In(vs) == [variant |-> "In", values |-> vs]
Nin(vs) == [variant |-> "Nin", values |-> vs]
Between(min, max) == [variant |-> "Between", min |-> min, max |-> max]

\* Comp::operator
operator(self) ==
    CASE self.variant = "Le" -> "<"
      [] self.variant = "Ge" -> ">"
      [] self.variant = "Leq" -> "<="
      [] self.variant = "Geq" -> ">="
      [] self.variant = "Eq" -> "=="
      [] self.variant = "Neq" -> "!="
      [] self.variant = "In" -> "in"
      [] self.variant = "Nin" -> "not_in"
      [] self.variant = "Between" -> "range"

\* a JSON object with its members, as a function from its keys
ValueMap(members) == [kind |-> "Object", members |-> members]

\* Vec<ColumnValue> into Vec<Value>, element by element
IntoValues(vs) ==
    LET items == [i \in 1..Len(vs) |-> ValueFrom(vs[i])]
    IN  IF \E i \in 1..Len(vs) : items[i] = Panicked THEN Panicked
        ELSE ValueArray(items)

\* <Comp<ColumnValue> as Serialize>::serialize
serialize(self) ==
    LET op == ValueString(operator(self))
        operand ==
            CASE self.variant \in {"Le", "Ge", "Leq", "Geq", "Eq", "Neq"} ->
                     ValueFrom(self.value)
              [] self.variant \in {"In", "Nin"} -> IntoValues(self.values)
              [] self.variant = "Between" -> IntoValues(<<self.min, self.max>>)
    IN  IF operand = Panicked THEN Panicked ELSE ValueArray(<<op, operand>>)

\* Filter::new
FilterNew == <<>>

\* an insert that keeps the entry of a key already present
insert_keep(self, col, comp) ==
    [c \in DOMAIN self \cup {col} |-> IF c \in DOMAIN self THEN self[c] ELSE comp]

\* Filter::insert: HashMap::insert puts the entry, replacing the one of an equal key
insert(self, col, comp) ==
    [c \in DOMAIN self \cup {col} |-> IF c = col THEN comp ELSE self[c]]

\* the derived Serialize of Filter: the map, each comparison by serialize
serialize_filter(self) ==
    LET members == [c \in DOMAIN self |-> serialize(self[c])]
    IN  IF \E c \in DOMAIN self : members[c] = Panicked THEN Panicked
        ELSE ValueMap(members)

\* the text of a JSON document, and serde_json::from_str of a text
to_string(v) == [document |-> v]
Garbage == [garbage |-> TRUE]
ErrorRequest == "Request"
ErrorJson == "Json"
ErrorResponse(t) == <<"Response", t>>
from_str(t) == IF t = Garbage THEN Err(ErrorJson) ELSE Ok(t.document)

(***************************************************************************)
(* The filter pipeline: a Filter is made, comparisons are inserted, and    *)
(* the Filter is serialized                                                *)
(***************************************************************************)
MaxInserts == 2

ColumnNames == {"id", "name", ""}

Comps ==
    {Le(CvInt(1)), Ge(CvInt(5)), Leq(CvFloat(Finite(3))), Geq(CvBool(TRUE)),
     Eq(CvString("a")), Neq(CvInt(1)), Eq(CvFloat(NaN)),
     In(<<>>), In(<<CvInt(5), CvInt(1)>>), In(<<CvInt(1), CvFloat(Infinity)>>),
     Nin(<<CvString("b"), CvString("a")>>),
     Between(CvInt(1), CvInt(5)), Between(CvInt(5), CvInt(1))}

InitFilter ==
    /\ TablesIdle
    /\ ValueIdle
    /\ GetIdle
    /\ CallsIdle
    /\ UiIdle
    /\ fpc = "filter"
    /\ filter = FilterNew
    /\ inserts = <<>>
    /\ filter_json = None

\* filter.insert(col, comp)
Insert(col, comp) ==
    /\ fpc = "filter"
    /\ Len(inserts) < MaxInserts
    /\ filter' = insert(filter, col, comp)
    /\ inserts' = Append(inserts, <<col, comp>>)
    /\ UNCHANGED <<fpc, filter_json, exceptFilterVars>>

\* serde_json::to_string(&filter)
Serialize ==
    /\ fpc = "filter"
    /\ LET v == serialize_filter(filter)
       IN  IF v = Panicked
           THEN fpc' = "panic" /\ filter_json' = filter_json
           ELSE fpc' = "serialized" /\ filter_json' = Some(to_string(v))
    /\ UNCHANGED <<filter, inserts, exceptFilterVars>>

NextFilter ==
    \/ \E col \in ColumnNames, comp \in Comps : Insert(col, comp)
    \/ Serialize

SpecFilter == InitFilter /\ [][NextFilter]_vars

(***************************************************************************)
(* src/api.rs: Client::get.  A url is the path after the base url, as its  *)
(* segments; the call is split at the await of the response                *)
(***************************************************************************)
SelectionAll == [variant |-> "All"]
SelectionId(id) == [variant |-> "Id", id |-> id]
SelectionFilter(f) == [variant |-> "Filter", filter |-> f]

\* a get that sends no body for Selection::All either
get_request_all_without_body(name, sel) ==
    [url |-> IF sel.variant = "Id" THEN <<"api", "item", name, sel.id>>
             ELSE <<"api", "items", name>>,
     body |-> IF sel.variant = "Filter"
              THEN Some(to_string(serialize_filter(sel.filter))) ELSE None]

\* Client::get up to send(): the url and the body of the request
get_request(name, sel) ==
    LET url == IF sel.variant = "Id" THEN <<"api", "item", name, sel.id>>
               ELSE <<"api", "items", name>>
        body == CASE sel.variant = "All" -> Some(to_string(ValueMap(<<>>)))
                  [] sel.variant = "Id" -> None
                  [] sel.variant = "Filter" ->
                         LET v == serialize_filter(sel.filter)
                         IN  IF v = Panicked THEN Panicked ELSE Some(to_string(v))
    IN  IF body = Panicked THEN Panicked ELSE [url |-> url, body |-> body]

\* what send() gives: an error, or a response with a status and a body text
SendError == [sent |-> FALSE]
Response(is_success, t) == [sent |-> TRUE, is_success |-> is_success, text |-> t]

\* Client::response_text
response_text(resp) ==
    IF resp.is_success THEN Ok(resp.text) ELSE Err(ErrorResponse(resp.text))

\* the closures of Client::get that turn the items into entries
into_entries(items) ==
    IF \E i \in 1..Len(items) : items[i].kind # "Object" THEN Panicked
    ELSE IF \E i \in 1..Len(items) : \E k \in DOMAIN items[i].members :
                LET r == try_from_value(items[i].members[k])
                IN  r = Panicked \/ ~r.ok
         THEN Panicked
         ELSE Ok([i \in 1..Len(items) |->
                     [k \in DOMAIN items[i].members |->
                         try_from_value(items[i].members[k]).val]])

\* Client::get from send() on
get_response(is_by_id, resp) ==
    IF ~resp.sent THEN Err(ErrorRequest)
    ELSE LET t == response_text(resp)
             parsed == from_str(t.val)
             items == IF is_by_id
                      THEN IF parsed.ok THEN Ok(<<parsed.val>>) ELSE parsed
                      ELSE IF parsed.ok /\ parsed.val.kind = "Array"
                           THEN Ok(parsed.val.items) ELSE Err(ErrorJson)
         IN  IF ~t.ok THEN t
             ELSE IF ~items.ok THEN items
             ELSE into_entries(items.val)

(***************************************************************************)
(* The row pipeline: Client::get is called with a selection, sends its     *)
(* request, and decodes what the service answers                           *)
(***************************************************************************)
MaxRows == 2

TableNames == {"game", "item"}

Ids == {1, -2}

Filters ==
    {FilterNew,
     insert(FilterNew, "id", Between(CvInt(1), CvInt(5))),
     insert(insert(FilterNew, "id", Geq(CvInt(1))), "name",
            In(<<CvString("b"), CvString("a")>>)),
     insert(FilterNew, "id", Eq(CvFloat(NaN)))}

Selections ==
    {SelectionAll} \cup {SelectionId(id) : id \in Ids}
        \cup {SelectionFilter(f) : f \in Filters}

Fields ==
    {ValueNull, ValueNumber(PosInt(5)), ValueString("a"), ValueArray(<<>>),
     ValueObject({})}

Rows ==
    {ValueMap(<<>>)} \cup {ValueMap([k \in {"id"} |-> f]) : f \in Fields}
        \cup {ValueMap([k \in {"id", "name"} |->
                           IF k = "id" THEN ValueNumber(PosInt(5)) ELSE f]) :
                 f \in Fields}

Items == Rows \cup {ValueNull, ValueString("a"), ValueArray(<<>>)}

Documents == Items \cup {ValueArray(items) : items \in SeqsUpTo(Items, MaxRows)}

Responses ==
    {SendError} \cup {Response(is_success, t) :
                         is_success \in BOOLEAN,
                         t \in {Garbage} \cup {to_string(d) : d \in Documents}}

InitGet ==
    /\ TablesIdle
    /\ ValueIdle
    /\ FilterIdle
    /\ CallsIdle
    /\ UiIdle
    /\ gpc = "call"
    /\ get_table \in TableNames
    /\ selection \in Selections
    /\ request = None
    /\ response = None
    /\ get_result = None

\* Client::get(table_name, selection) until the request is sent
GetSend ==
    /\ gpc = "call"
    /\ LET r == get_request(get_table, selection)
       IN  IF r = Panicked
           THEN gpc' = "panic" /\ request' = request
           ELSE gpc' = "sent" /\ request' = Some(r)
    /\ UNCHANGED <<get_table, selection, response, get_result, exceptGetVars>>

\* the rest of Client::get, when the service has answered with resp
GetReceive(resp) ==
    /\ gpc = "sent"
    /\ response' = Some(resp)
    /\ LET r == get_response(selection.variant = "Id", resp)
       IN  IF r = Panicked
           THEN gpc' = "panic" /\ get_result' = get_result
           ELSE gpc' = "done" /\ get_result' = Some(r)
    /\ UNCHANGED <<get_table, selection, request, exceptGetVars>>

NextGet ==
    \/ GetSend
    \/ \E resp \in Responses : GetReceive(resp)

SpecGet == InitGet /\ [][NextGet]_vars

(***************************************************************************)
(* src/table.rs: from_vec call by call.  Every call of construct_leaves    *)
(* and of pop_outer_leaves is a frame of the stack; a call is a step and a *)
(* return is a step                                                        *)
(***************************************************************************)
\* what the extract_if of construct_leaves takes out of tables, and leaves in it
extracted(node, tables) == SelectSeq(tables, LAMBDA t : IsLeafOf(node, t))
retained_all(node, tables) == tables
retained(node, tables) == SelectSeq(tables, LAMBDA t : ~IsLeafOf(node, t))

\* the frame of into_trees (node is None) or of construct_leaves(node, tables):
\* the tables to make nodes of, and the nodes made so far
ConstructFrame(node, leaves) == [node |-> node, leaves |-> leaves, built |-> <<>>]

\* the frame of self.pop_outer_leaves(): the leaves examined so far, and what
\* became of them
PopFrame(self) ==
    [self |-> self, done |-> 0, child_leaves |-> <<>>, empty_leaves |-> <<>>,
     kept |-> <<>>]

Top == frames[Len(frames)]
Caller == frames[Len(frames) - 1]
Pop2(s) == SubSeq(s, 1, Len(s) - 2)
Max(a, b) == IF a >= b THEN a ELSE b

CallTables ==
    {[table |-> id, columns |-> <<Column(TRUE, fks)>>] :
        id \in TableIds, fks \in ForeignKeyLists}

InitCalls ==
    /\ TablesIdle
    /\ ValueIdle
    /\ FilterIdle
    /\ GetIdle
    /\ UiIdle
    /\ cpc = "from_vec"
    /\ call_input \in SeqsUpTo(CallTables, MaxTables)
    /\ tables_left = <<>>
    /\ frames = <<>>
    /\ depth = NoDepth
    /\ call_trees = <<>>
    /\ call_defs = <<>>

\* from_vec calls into_trees, which extracts the bases
CallIntoTrees ==
    /\ cpc = "from_vec"
    /\ frames' = <<ConstructFrame(None, SelectSeq(call_input, IsBase))>>
    /\ tables_left' = SelectSeq(call_input, LAMBDA t : ~IsBase(t))
    /\ cpc' = "into_trees"
    /\ UNCHANGED <<call_input, depth, call_trees, call_defs, exceptCallVars>>

\* the map of into_trees or of construct_leaves calls construct_leaves for
\* its next table, which extracts the leaves of that table
CallConstructLeaves ==
    /\ cpc = "into_trees"
    /\ Len(Top.built) < Len(Top.leaves)
    /\ LET table == Top.leaves[Len(Top.built) + 1]
       IN  /\ frames' = Append(frames,
                  ConstructFrame(Some(table), extracted(table, tables_left)))
           /\ tables_left' = retained(table, tables_left)
    /\ depth' = [depth EXCEPT !.construct_leaves = Max(@, Len(frames))]
    /\ UNCHANGED <<cpc, call_input, call_trees, call_defs, exceptCallVars>>

\* construct_leaves returns its nodes, and its caller makes the TableNode
ReturnConstructLeaves ==
    /\ cpc = "into_trees"
    /\ Len(frames) > 1
    /\ Len(Top.built) = Len(Top.leaves)
    /\ frames' = Append(Pop2(frames),
           [Caller EXCEPT !.built =
               Append(@, [node |-> Top.node.val, leaves |-> Top.built])])
    /\ UNCHANGED <<cpc, call_input, tables_left, depth, call_trees, call_defs,
                   exceptCallVars>>

\* into_trees returns (trees, tables); from_vec drops the tables
ReturnIntoTrees ==
    /\ cpc = "into_trees"
    /\ Len(frames) = 1
    /\ Len(Top.built) = Len(Top.leaves)
    /\ call_trees' = Top.built
    /\ tables_left' = <<>>
    /\ frames' = <<>>
    /\ cpc' = "map"
    /\ UNCHANGED <<call_input, depth, call_defs, exceptCallVars>>

\* the map of from_vec calls tree.pop_outer_leaves() for its next tree, or
\* the extract_if of pop_outer_leaves calls leaf.pop_outer_leaves() for its
\* next leaf
CallPopOuterLeaves ==
    /\ cpc = "map"
    /\ \/ /\ frames = <<>>
          /\ Len(call_defs) < Len(call_trees)
          /\ frames' = <<PopFrame(call_trees[Len(call_defs) + 1])>>
       \/ /\ frames # <<>>
          /\ Top.done < Len(Top.self.leaves)
          /\ frames' = Append(frames, PopFrame(Top.self.leaves[Top.done + 1]))
    /\ depth' = [depth EXCEPT !.pop_outer_leaves = Max(@, Len(frames) + 1)]
    /\ UNCHANGED <<cpc, call_input, tables_left, call_trees, call_defs,
                   exceptCallVars>>

\* what the call of the top frame returns, and the node as it leaves it
PopReturned ==
    IF Top.self.leaves = <<>>
    THEN [ret |-> None, self |-> Top.self]
    ELSE [ret |-> Some(Top.child_leaves \o Top.empty_leaves),
          self |-> [node |-> Top.self.node, leaves |-> Top.kept]]

\* pop_outer_leaves returns to the extract_if of its caller, or to from_vec
ReturnPopOuterLeaves ==
    /\ cpc = "map"
    /\ frames # <<>>
    /\ Top.done = Len(Top.self.leaves)
    /\ IF Len(frames) > 1
       THEN /\ frames' = Append(Pop2(frames),
                   IF PopReturned.ret.some
                   THEN [Caller EXCEPT
                            !.done = @ + 1,
                            !.child_leaves = @ \o PopReturned.ret.val,
                            !.kept = Append(@, PopReturned.self)]
                   ELSE [Caller EXCEPT
                            !.done = @ + 1,
                            !.empty_leaves = Append(@, Top.self.node)])
            /\ call_defs' = call_defs
       ELSE /\ frames' = <<>>
            /\ call_defs' = Append(call_defs,
                   IF PopReturned.ret.some
                   THEN Family(PopReturned.self.node, PopReturned.ret.val)
                   ELSE Single(PopReturned.self.node))
    /\ UNCHANGED <<cpc, call_input, tables_left, depth, call_trees, exceptCallVars>>

\* from_vec returns the definitions
ReturnFromVec ==
    /\ cpc = "map"
    /\ frames = <<>>
    /\ Len(call_defs) = Len(call_trees)
    /\ cpc' = "done"
    /\ UNCHANGED <<call_input, tables_left, frames, depth, call_trees, call_defs,
                   exceptCallVars>>

NextCalls ==
    \/ CallIntoTrees
    \/ CallConstructLeaves
    \/ ReturnConstructLeaves
    \/ ReturnIntoTrees
    \/ CallPopOuterLeaves
    \/ ReturnPopOuterLeaves
    \/ ReturnFromVec

SpecCalls == InitCalls /\ [][NextCalls]_vars

\* the calls are steps of one thread, which runs while it has a step to take
FairSpecCalls == SpecCalls /\ WF_vars(NextCalls)

(***************************************************************************)
(* src/main.rs: the application.  A task is a request in flight; its       *)
(* completion delivers the response message to State::update               *)
(***************************************************************************)
Idle == "Idle"
Requesting == "Requesting"

\* State::Connect(StateConnect) and State::View(StateTable); the client is its url
StateConnect(url, state, message) ==
    [variant |-> "Connect", url |-> url, state |-> state, message |-> message]
StateTable(url, tables, state, message, entries) ==
    [variant |-> "View", url |-> url, tables |-> tables, state |-> state,
     message |-> message, entries |-> entries]

\* Message::Connect(MessageConnect) and Message::View(MessageTable)
MessageEdit(url) == [screen |-> "Connect", variant |-> "Edit", url |-> url]
MessageConnect == [screen |-> "Connect", variant |-> "Connect"]
MessageResponse(r) == [screen |-> "Connect", variant |-> "Response", response |-> r]
MessageGetRequest(id) == [screen |-> "View", variant |-> "GetRequest", table |-> id]
MessageGetResponse(id, r) ==
    [screen |-> "View", variant |-> "GetResponse", table |-> id, entries |-> r]

\* task_api_tables and task_api_get: the request of a clone of the client
TablesTask(url) == [api |-> "tables", url |-> url]
GetTask(url, id) == [api |-> "get", url |-> url, table |-> id, selection |-> SelectionAll]

\* what an update gives: the state it leaves, the task it returns, or the
\* unreachable!() it ran into
Updated(state, task) == [state |-> state, task |-> task, panic |-> None]
Unreachable(line) == [panic |-> Some(line)]

\* StateConnect::update
connect_update(self, message) ==
    CASE message.variant = "Edit" ->
             Updated([self EXCEPT !.url = message.url, !.message = None], None)
      [] message.variant = "Connect" ->
             Updated([self EXCEPT !.state = Requesting, !.message = None],
                     Some(TablesTask(self.url)))
      [] message.variant = "Response" ->
             IF message.response.ok THEN Unreachable(138)
             ELSE Updated([self EXCEPT !.state = Idle,
                                       !.message = Some(message.response.err)], None)

\* StateTable::update; MessageEntries has no variant
table_update(self, message) ==
    CASE message.variant = "GetRequest" ->
             Updated([self EXCEPT !.state = Requesting, !.message = None],
                     Some(GetTask(self.url, message.table)))
      [] message.variant = "GetResponse" ->
             IF message.entries.ok
             THEN Updated([self EXCEPT
                              !.state = Idle,
                              !.entries = Some(<<message.table, message.entries.val>>)],
                          None)
             ELSE Updated([self EXCEPT !.state = Idle,
                                       !.message = Some(message.entries.err)], None)

\* State::update
update(self, message) ==
    IF message.variant = "Response" /\ message.response.ok
    THEN IF self.variant = "Connect"
         THEN Updated(StateTable(self.url, message.response.val, Idle, None, None), None)
         ELSE Unreachable(55)
    ELSE IF self.variant = "Connect"
         THEN IF message.screen = "Connect" THEN connect_update(self, message)
              ELSE Unreachable(76)
         ELSE IF message.screen = "View" THEN table_update(self, message)
              ELSE Unreachable(84)

\* StateTable::get_selected_table: find_map of get over the definitions
RECURSIVE find_map_get(_, _)
find_map_get(tables, table_name) ==
    IF tables = <<>> THEN None
    ELSE IF get(Head(tables), table_name).some THEN get(Head(tables), table_name)
    ELSE find_map_get(Tail(tables), table_name)

get_selected_table(self) ==
    IF ~self.entries.some THEN None
    ELSE find_map_get(self.tables, self.entries.val[1])

\* StateTable::view: the tables it makes a button of
ViewedTables(self) ==
    Flatten([i \in 1..Len(self.tables) |->
        IF self.tables[i].variant = "Single" THEN <<self.tables[i].table>>
        ELSE self.tables[i].leaves])

\* a button that is enabled while a request is in flight, too
view_table_always(self, t) ==
    LET selected == IF self.entries.some THEN self.entries.val[1] = t.table ELSE FALSE
    IN  IF ~selected THEN Some(MessageGetRequest(t.table)) ELSE None

\* StateTable::view_table: the on_press_maybe of the button of a table
view_table(self, t) ==
    LET idle == self.state = Idle
        selected == IF self.entries.some THEN self.entries.val[1] = t.table ELSE FALSE
    IN  IF idle /\ ~selected THEN Some(MessageGetRequest(t.table)) ELSE None

(***************************************************************************)
(* The application pipeline: the user acts on what the view enables, and   *)
(* the requests in flight complete in any order                            *)
(***************************************************************************)
MaxTasks == 2

DefaultUrl == "http://127.0.0.1:5000"
Urls == {DefaultUrl, "http://shop"}
ErrorTexts == {"request error"}

KeyedTable(id, fks) == [table |-> id, columns |-> <<Column(TRUE, fks)>>]

\* what Client::tables answers: the definitions of a schema, or an error
SchemaTables ==
    {KeyedTable("A", <<>>), KeyedTable("B", <<"A">>), KeyedTable("C", <<"B">>),
     KeyedTable("A", <<"A">>)}
Schemas == SeqsUpTo(SchemaTables, MaxTables)
TablesResults ==
    {Ok(from_vec(tables)) : tables \in Schemas} \cup {Err(e) : e \in ErrorTexts}

\* what Client::get answers: the entries of the table, or an error
EntryLists == {<<>>, <<[id |-> Some(CvFloat(Finite(10)))]>>}
GetResults == {Ok(entries) : entries \in EntryLists} \cup {Err(e) : e \in ErrorTexts}

Without(s, i) == SubSeq(s, 1, i - 1) \o SubSeq(s, i + 1, Len(s))

\* main: the Connect screen, idle, and the task of task_api_tables
InitUi ==
    /\ TablesIdle
    /\ ValueIdle
    /\ FilterIdle
    /\ GetIdle
    /\ CallsIdle
    /\ app = StateConnect(DefaultUrl, Idle, None)
    /\ tasks = <<TablesTask(DefaultUrl)>>
    /\ panicked = None
    /\ delivered = None

\* the runtime hands message to State::update and runs the task it returns;
\* pending are the tasks still in flight
Deliver(message, pending) ==
    /\ panicked = None
    /\ delivered' = Some(message)
    /\ LET u == update(app, message)
       IN  IF u.panic.some
           THEN /\ panicked' = u.panic
                /\ app' = app
                /\ tasks' = pending
           ELSE /\ panicked' = panicked
                /\ app' = u.state
                /\ tasks' = IF u.task.some THEN Append(pending, u.task.val)
                            ELSE pending
    /\ UNCHANGED exceptUiVars

\* the user types in the text_input: on_input(MessageConnect::Edit)
EditUrl(url) ==
    /\ app.variant = "Connect"
    /\ Deliver(MessageEdit(url), tasks)

\* the user submits the text_input: on_submit(MessageConnect::Connect)
SubmitUrl ==
    /\ app.variant = "Connect"
    /\ Len(tasks) < MaxTasks
    /\ Deliver(MessageConnect, tasks)

\* the user presses Connect: on_press_maybe, Some only while Idle
PressConnect ==
    /\ app.variant = "Connect"
    /\ app.state = Idle
    /\ Len(tasks) < MaxTasks
    /\ Deliver(MessageConnect, tasks)

\* the user presses the button of a table, if view_table gave it a message
PressTable(i) ==
    /\ app.variant = "View"
    /\ i \in 1..Len(ViewedTables(app))
    /\ view_table(app, ViewedTables(app)[i]).some
    /\ Len(tasks) < MaxTasks
    /\ Deliver(view_table(app, ViewedTables(app)[i]).val, tasks)

\* a tables request completes with r
CompleteTables(i, r) ==
    /\ i \in 1..Len(tasks)
    /\ tasks[i].api = "tables"
    /\ Deliver(MessageResponse(r), Without(tasks, i))

\* a row request completes with r
CompleteGet(i, r) ==
    /\ i \in 1..Len(tasks)
    /\ tasks[i].api = "get"
    /\ Deliver(MessageGetResponse(tasks[i].table, r), Without(tasks, i))

NextUi ==
    \/ \E url \in Urls : EditUrl(url)
    \/ SubmitUrl
    \/ PressConnect
    \/ \E i \in 1..MaxTables : PressTable(i)
    \/ \E i \in 1..MaxTasks, r \in TablesResults : CompleteTables(i, r)
    \/ \E i \in 1..MaxTasks, r \in GetResults : CompleteGet(i, r)

SpecUi == InitUi /\ [][NextUi]_vars

\* the request in flight at place i of tasks completes, with any answer
CompleteTask(i) ==
    \/ \E r \in TablesResults : CompleteTables(i, r)
    \/ \E r \in GetResults : CompleteGet(i, r)

\* every request that was issued completes in the end
FairSpecUi == SpecUi /\ \A i \in 1..MaxTasks : WF_vars(CompleteTask(i))

(***************************************************************************)
(* Vocabulary of the properties                                            *)
(***************************************************************************)
TreeNode(table, leaves) == [node |-> table, leaves |-> leaves]

\* the identifiers the (first) primary-key column of a table references
References(table) ==
    IF PrimaryKey(table).some THEN Range(PrimaryKey(table).val.foreign_keys) ELSE {}

NoPrimaryKey(table) == \A c \in 1..Len(table.columns) : ~table.columns[c].primary_key

\* a primary key without foreign keys
PlainPrimaryKey(table) == ~NoPrimaryKey(table) /\ References(table) = {}

\* every table of a tree, the root included
RECURSIVE NodeTables(_)
NodeTables(tree) ==
    <<tree.node>> \o Flatten([i \in 1..Len(tree.leaves) |-> NodeTables(tree.leaves[i])])

\* the childless nodes of a tree (the root itself when it has no children)
RECURSIVE Terminals(_)
Terminals(tree) ==
    IF tree.leaves = <<>> THEN <<tree.node>>
    ELSE Flatten([i \in 1..Len(tree.leaves) |-> Terminals(tree.leaves[i])])

ForestTables == Flatten([i \in 1..Len(trees) |-> NodeTables(trees[i])])

SameBag(s, t) ==
    /\ Len(s) = Len(t)
    /\ \A x \in Range(s) \cup Range(t) : Count(x, s) = Count(x, t)

\* the tables a definition holds
DefTables(def) ==
    IF def.variant = "Single" THEN <<def.table>> ELSE <<def.base>> \o def.leaves

DefBase(def) == IF def.variant = "Single" THEN def.table ELSE def.base

\* into_trees has returned; from_vec has returned
Resolved == pc = "trees"
Flattened == pc = "defs"

TA == [table |-> "A", columns |-> <<Column(TRUE, <<>>)>>]
TB == [table |-> "B", columns |-> <<Column(TRUE, <<"A">>)>>]
TC == [table |-> "C", columns |-> <<Column(TRUE, <<"B">>)>>]
TD == [table |-> "C", columns |-> <<Column(TRUE, <<"A">>)>>]

(***************************************************************************)
(* C1                                                                      *)
(***************************************************************************)
IsTreeRoot(table) == \E k \in 1..Len(trees) : trees[k].node = table

\* C1 (as stated): into_trees makes a table the root of a tree if and only
\* if the table has no primary-key column or its first primary-key column
\* has an empty foreign-key list.
C1_RootIffNoKeyOrNoForeignKeys ==
    Resolved =>
        \A i \in 1..Len(input) :
            IsTreeRoot(input[i])
                <=> (NoPrimaryKey(input[i]) \/ References(input[i]) = {})

\* C1 (amended): into_trees makes a table the root of a tree if and only if
\* the table has a primary-key column and its first primary-key column has
\* an empty foreign-key list; a table without a primary-key column is the
\* root of no tree and stays in the leftover list.
C1_RootIffKeyWithoutForeignKeys ==
    Resolved =>
        \A i \in 1..Len(input) :
            /\ IsTreeRoot(input[i]) <=> PlainPrimaryKey(input[i])
            /\ NoPrimaryKey(input[i]) => input[i] \in Range(rest)

C1_Witness ==
    /\ pc = "trees"
    /\ \E i, j \in 1..Len(input) :
        /\ NoPrimaryKey(input[i]) /\ input[i] \in Range(rest)
        /\ PlainPrimaryKey(input[j]) /\ IsTreeRoot(input[j])
        /\ Len(input[j].columns) = 3

(***************************************************************************)
(* C2                                                                      *)
(***************************************************************************)
\* C2: for every tree whose root has at least one child, from_vec yields
\* Family{base, leaves} with base the root and leaves exactly the childless
\* descendants of the root, each once; no node that has children is in the
\* output except as base.  The chain A <- B <- C yields Family{A, [C]} and
\* a root A with terminal children B and D yields leaves {B, D}.
C2_FamilyLeavesAreTerminals ==
    Flattened =>
        /\ Len(defs) = Len(trees)
        /\ \A i \in 1..Len(trees) :
            trees[i].leaves # <<>> =>
                /\ defs[i].variant = "Family"
                /\ defs[i].base = trees[i].node
                /\ SameBag(defs[i].leaves, Terminals(trees[i]))
        /\ SameBag(input, <<TA, TB, TC>>) => defs = <<Family(TA, <<TC>>)>>
        /\ SameBag(input, <<TA, TB, TD>>) =>
            /\ Len(defs) = 1
            /\ defs[1].variant = "Family"
            /\ defs[1].base = TA
            /\ SameBag(defs[1].leaves, <<TB, TD>>)

C2_Witness ==
    /\ pc = "defs"
    /\ input = <<TC, TB, TA>>
    /\ trees = <<TreeNode(TA, <<TreeNode(TB, <<TreeNode(TC, <<>>)>>)>>)>>
    /\ defs = <<Family(TA, <<TC>>)>>

(***************************************************************************)
(* C3                                                                      *)
(***************************************************************************)
RECURSIVE EdgesReference(_)
EdgesReference(tree) ==
    \A i \in 1..Len(tree.leaves) :
        /\ tree.node.table \in References(tree.leaves[i].node)
        /\ EdgesReference(tree.leaves[i])

\* C3: for A (primary key without foreign keys), B (primary key with a
\* foreign key to A) and C (primary key with a foreign key to B), in any
\* input order, into_trees returns exactly one tree A -> B -> C and an
\* empty leftover list; every parent->child edge of the forest joins a
\* child whose primary-key column has a foreign key referencing the
\* parent's table identifier.
C3_ChainAndEdges ==
    Resolved =>
        /\ \A a, b, c \in 1..Len(input) :
            ( /\ Len(input) = 3
              /\ Cardinality({input[a].table, input[b].table, input[c].table}) = 3
              /\ PlainPrimaryKey(input[a])
              /\ References(input[b]) = {input[a].table}
              /\ References(input[c]) = {input[b].table} )
            => /\ trees = <<TreeNode(input[a],
                              <<TreeNode(input[b], <<TreeNode(input[c], <<>>)>>)>>)>>
               /\ rest = <<>>
        /\ \A i \in 1..Len(trees) : EdgesReference(trees[i])

C3_Witness ==
    /\ pc = "trees"
    /\ input = <<TC, TA, TB>>
    /\ trees = <<TreeNode(TA, <<TreeNode(TB, <<TreeNode(TC, <<>>)>>)>>)>>
    /\ rest = <<>>

(***************************************************************************)
(* C4                                                                      *)
(***************************************************************************)
\* the tables a chain of references joins to a table with a plain primary key
RECURSIVE Attached(_)
Attached(S) ==
    LET more == {t \in Range(input) : \E s \in S : s.table \in References(t)}
    IN  IF more \subseteq S THEN S ELSE Attached(S \cup more)

Rooted == Attached({t \in Range(input) : PlainPrimaryKey(t)})

InputIds == {input[i].table : i \in 1..Len(input)}

C5_LeftoverReported ==
    Flattened =>
        \A i \in 1..Len(rest) :
            \E d \in 1..Len(defs) : rest[i] \in Range(DefTables(defs[d]))

(***************************************************************************)
(* C6                                                                      *)
(***************************************************************************)
\* C6: from_vec yields exactly one definition per root, Single(root)
\* exactly when no table was attached as a child of the root, otherwise a
\* Family whose leaves list is non-empty.
C6_SingleIffNoChildren ==
    Flattened =>
        /\ Len(defs) = Len(trees)
        /\ Len(defs) = Cardinality({i \in 1..Len(input) : PlainPrimaryKey(input[i])})
        /\ \A i \in 1..Len(defs) :
            /\ DefBase(defs[i]) = trees[i].node
            /\ defs[i].variant = "Single" <=> trees[i].leaves = <<>>
            /\ defs[i].variant \in {"Single", "Family"}
            /\ defs[i].variant = "Family" => defs[i].leaves # <<>>

C6_Witness ==
    /\ pc = "defs"
    /\ Len(defs) = 2
    /\ defs[1] = Family(TA, <<TB>>)
    /\ defs[2].variant = "Single"
    /\ trees[2].leaves = <<>>

(***************************************************************************)
(* C7                                                                      *)
(***************************************************************************)
\* C7: the base of every definition from_vec produces is a root table: its
\* primary-key column, if any, has no foreign keys.
C7_BaseIsRoot ==
    Flattened =>
        \A i \in 1..Len(defs) :
            PrimaryKey(DefBase(defs[i])).some
                => PrimaryKey(DefBase(defs[i])).val.foreign_keys = <<>>

C7_Witness ==
    /\ pc = "defs"
    /\ \E i \in 1..Len(defs) :
        /\ defs[i].variant = "Family"
        /\ Len(defs[i].base.columns) = 3
        /\ PrimaryKey(defs[i].base) = Some(Column(TRUE, <<>>))
    /\ rest # <<>>

(***************************************************************************)
(* C8                                                                      *)
(***************************************************************************)
Distinct(s) == \A i, j \in 1..Len(s) : i # j => s[i] # s[j]

TableIdsOf(ts) == [i \in 1..Len(ts) |-> ts[i].table]

FamiliesDistinct ==
    \A i \in 1..Len(defs) :
        defs[i].variant = "Family" => Distinct(TableIdsOf(DefTables(defs[i])))

\* C8 (as stated): for every Family from_vec produces from any list of
\* table schemas, the identifiers of base and leaves are pairwise distinct.
C8_FamilyIdsDistinct == Flattened => FamiliesDistinct

\* C8 (amended): for every Family from_vec produces from a list of table
\* schemas whose table identifiers are pairwise distinct, the identifiers
\* of base and leaves are pairwise distinct.
C8_FamilyIdsDistinctOfDistinctInput ==
    (Flattened /\ Distinct(TableIdsOf(input))) => FamiliesDistinct

C8_Witness ==
    /\ pc = "defs"
    /\ Distinct(TableIdsOf(input))
    /\ \E i \in 1..Len(defs) : defs[i].variant = "Family" /\ Len(defs[i].leaves) = 2

(***************************************************************************)
(* C9                                                                      *)
(***************************************************************************)
\* C9: get(id) returns the base when id is the base's identifier, otherwise
\* the first leaf whose identifier is id, and None when id matches neither
\* (always None for a non-base id on a Single); the returned schema's
\* identifier is id and the definition is left unchanged.
C9_GetResolves ==
    lookup.called =>
        LET self == lookup.self
            id == lookup.table_name
            base == DefBase(self)
            leaves == IF self.variant = "Family" THEN self.leaves ELSE <<>>
            hits == {k \in 1..Len(leaves) : leaves[k].table = id}
        IN  /\ base.table = id => lookup.ret = Some(base)
            /\ (base.table # id /\ hits # {}) =>
                   \E k \in hits : /\ \A h \in hits : k <= h
                                   /\ lookup.ret = Some(leaves[k])
            /\ (base.table # id /\ hits = {}) => lookup.ret = None
            /\ (self.variant = "Single" /\ base.table # id) => lookup.ret = None
            /\ lookup.ret.some => lookup.ret.val.table = id
            /\ defs[lookup.index] = self

C9_Witness ==
    /\ pc = "got"
    /\ lookup.self.variant = "Family"
    /\ lookup.self.base.table = lookup.table_name
    /\ \E k \in 1..Len(lookup.self.leaves) :
        lookup.self.leaves[k].table = lookup.table_name
    /\ lookup.ret = Some(lookup.self.base)

(***************************************************************************)
(* C10                                                                     *)
(***************************************************************************)
\* the numbers an f64 holds exactly: the integers of at most MantBits bits
ExactInF64(n) == Abs(n) < Pow2(MantBits)

\* C10: every numeric untyped value, in particular a plain integer literal
\* such as 5, is typed as Float and not as Int (an integer an f64 holds
\* exactly as the float of the same value), so Int is produced for no
\* number that has an f64 representation; Int(n) made untyped and typed
\* again is a Float, which is unequal to Int(n).
C10_NumbersBecomeFloat ==
    (vpc = "typed" /\ value.kind = "Number") =>
        /\ result.ok /\ result.val.some
        /\ result.val.val.variant = "Float"
        /\ result.val.val.variant # "Int"
        /\ (value.number.n # "Float" /\ ExactInF64(value.number.int))
               => result.val.val.float = Finite(2 * value.number.int)
        /\ value.number.n = "Float" => result.val.val.float = value.number.float
        /\ (column_value.some /\ column_value.val.variant = "Int") =>
               /\ value.number.n # "Float"
               /\ value.number.int = column_value.val.int
               /\ ~ColumnValueEq(result.val.val, column_value.val)
               /\ ~ColumnValueEq(column_value.val, result.val.val)

C10_Witness ==
    /\ vpc = "typed"
    /\ column_value = Some(CvInt(5))
    /\ value = ValueNumber(PosInt(5))
    /\ result = Ok(Some(CvFloat(Finite(10))))

(***************************************************************************)
(* C11                                                                     *)
(***************************************************************************)
\* C11: for every ColumnValue v of variant Bool or String,
\* try_from_value(Value::from(v)) returns Ok(Some(v')) with v' == v.
C11_RoundTripBoolString ==
    (vpc = "typed" /\ column_value.some
        /\ column_value.val.variant \in {"Bool", "String"}) =>
        /\ result.ok /\ result.val.some
        /\ ColumnValueEq(result.val.val, column_value.val)
        /\ result.val.val.variant = column_value.val.variant

C11_Witness ==
    /\ vpc = "typed"
    /\ column_value = Some(CvString("5"))
    /\ value = ValueString("5")
    /\ result = Ok(Some(CvString("5")))

(***************************************************************************)
(* C12                                                                     *)
(***************************************************************************)
\* C12: try_from_value is total and never aborts: null yields Ok(None), a
\* boolean or string yields Ok(Some) of the matching variant, and every
\* array or object yields Err, returned as a value.
C12_TryFromValueTotal ==
    /\ vpc = "panic" => (column_value.some /\ value = None)
    /\ vpc = "typed" =>
        /\ value.kind = "Null" => result = Ok(None)
        /\ value.kind = "Bool" => result = Ok(Some(CvBool(value.bool)))
        /\ value.kind = "String" => result = Ok(Some(CvString(value.string)))
        /\ value.kind \in {"Array", "Object"} => (~result.ok /\ result = Err(Unit))
        /\ value.kind \in {"Null", "Bool", "Number", "String"} => result.ok
    /\ vpc = "value" => ENABLED TryFromValue

C12_Witness ==
    /\ vpc = "typed"
    /\ column_value = None
    /\ value = ValueArray(<<ValueNumber(PosInt(5))>>)
    /\ result = Err(Unit)

(***************************************************************************)
(* C14                                                                     *)
(***************************************************************************)
\* C14: for empty text try_from_str returns Ok(None) for every optional
\* column of any declared type, Ok(Some(String(""))) for a non-optional
\* String column and Err(Empty) for every non-optional Bool, Int or Float
\* column, and nothing else.
C14_EmptyText ==
    (vpc = "parsed" /\ text.val = "") =>
        /\ column.val.optional => result = Ok(None)
        /\ (~column.val.optional /\ column.val.ty = "String")
               => result = Ok(Some(CvString("")))
        /\ (~column.val.optional /\ column.val.ty \in {"Bool", "Int", "Float"})
               => result = Err(Empty)
        /\ result \in {Ok(None), Ok(Some(CvString(""))), Err(Empty)}

C14_Witness ==
    /\ vpc = "parsed"
    /\ text = Some("")
    /\ column = Some(TextColumn("String", TRUE))
    /\ result = Ok(None)

(***************************************************************************)
(* C15                                                                     *)
(***************************************************************************)
\* C15: for every column and every non-empty text try_from_str returns
\* either Ok(Some(v)) with v.ty() the column's declared type or
\* Err(ParseError), never Ok(None), Err(Empty) or Err(ValueError); for a
\* String column it never fails and the result is the text unchanged.
C15_NonEmptyText ==
    (vpc = "parsed" /\ text.val # "") =>
        /\ \/ /\ result.ok /\ result.val.some
              /\ ty(result.val.val) = column.val.ty
           \/ result = Err(ParseError)
        /\ result \notin {Ok(None), Err(Empty), Err(ValueError)}
        /\ column.val.ty = "String" => result = Ok(Some(CvString(text.val)))

C15_Witness ==
    /\ vpc = "parsed"
    /\ text = Some("12")
    /\ column = Some(TextColumn("Int", FALSE))
    /\ result = Ok(Some(CvInt(12)))

(***************************************************************************)
(* C16                                                                     *)
(***************************************************************************)
\* the columns of the insert calls made so far
InsertedColumns == {inserts[i][1] : i \in 1..Len(inserts)}

\* the comparison of the most recent insert call for column c
LastInserted(c) ==
    LET calls == {i \in 1..Len(inserts) : inserts[i][1] = c}
        last == CHOOSE i \in calls : \A j \in calls : j <= i
    IN  inserts[last][2]

\* C16: after any sequence of Filter::insert calls on a new Filter, the
\* filter has a comparison for exactly the column names inserted, each the
\* comparison of the most recent insert for its name (so an insert leaves
\* the other columns as they were), and every insert of a column name and a
\* comparison is accepted.
C16_InsertKeepsMostRecent ==
    fpc = "filter" =>
        /\ DOMAIN filter = InsertedColumns
        /\ \A c \in InsertedColumns : filter[c] = LastInserted(c)
        /\ Len(inserts) < MaxInserts =>
               \A col \in ColumnNames, comp \in Comps : ENABLED Insert(col, comp)

\* a column was inserted twice, with different comparisons
C16_Witness ==
    /\ fpc = "filter"
    /\ Len(inserts) = 2
    /\ inserts[1][1] = inserts[2][1]
    /\ inserts[1][2] # inserts[2][2]

(***************************************************************************)
(* C17                                                                     *)
(***************************************************************************)
\* the token the wire encoding fixes for a variant
OperatorToken(variant) ==
    CASE variant = "Le" -> "<"
      [] variant = "Ge" -> ">"
      [] variant = "Leq" -> "<="
      [] variant = "Geq" -> ">="
      [] variant = "Eq" -> "=="
      [] variant = "Neq" -> "!="
      [] variant = "In" -> "in"
      [] variant = "Nin" -> "not_in"
      [] variant = "Between" -> "range"

\* the operands of a comparison, in the order given
Operands(comp) ==
    CASE comp.variant \in {"In", "Nin"} -> comp.values
      [] comp.variant = "Between" -> <<comp.min, comp.max>>
      [] OTHER -> <<comp.value>>

\* encoded is [token, operand] of comp: the operand is the value of a unary
\* comparison and the array of the values, in order, of the others
IsPairOf(encoded, comp) ==
    /\ encoded.kind = "Array"
    /\ Len(encoded.items) = 2
    /\ encoded.items[1] = ValueString(OperatorToken(comp.variant))
    /\ LET given == Operands(comp)
           sent == IF comp.variant \in {"In", "Nin", "Between"}
                   THEN IF encoded.items[2].kind = "Array"
                        THEN encoded.items[2].items ELSE <<>>
                   ELSE <<encoded.items[2]>>
       IN  /\ Len(sent) = Len(given)
           /\ \A i \in 1..Len(given) : sent[i] = ValueFrom(given[i])

\* C17: every Comparison of a Filter serializes to [operatorToken, operand],
\* the token fixed by the variant and the operands in the order given, and
\* no Comparison is rejected.
C17_ComparisonSerializesToPair ==
    fpc \in {"serialized", "panic"} =>
        /\ fpc = "serialized"
        /\ filter_json.some
        /\ LET document == filter_json.val.document
           IN  /\ document.kind = "Object"
               /\ DOMAIN document.members = DOMAIN filter
               /\ \A c \in DOMAIN filter : IsPairOf(document.members[c], filter[c])

(***************************************************************************)
(* C13                                                                     *)
(***************************************************************************)
\* the rows of a successful response, as Client::get takes them from its text
ResponseItems ==
    LET document == response.val.text.document
    IN  IF selection.variant = "Id" THEN <<document>>
        ELSE IF document.kind = "Array" THEN document.items ELSE <<>>

\* a row that is not a JSON object, or has an array or an object as a field
InvalidRow(item) ==
    \/ item.kind # "Object"
    \/ \E k \in DOMAIN item.members : item.members[k].kind \in {"Array", "Object"}

\* the service answered with success and a JSON text holding an invalid row
InvalidRowReceived ==
    /\ response.some
    /\ response.val.sent
    /\ response.val.is_success
    /\ response.val.text # Garbage
    /\ \E i \in 1..Len(ResponseItems) : InvalidRow(ResponseItems[i])

\* C13: when a successful row-fetch response holds a row with an array or an
\* object as a field, or a row that is not a JSON object, Client::get
\* returns Err and does not panic.
C13_InvalidRowsGiveErr ==
    InvalidRowReceived =>
        /\ gpc = "done"
        /\ get_result.some
        /\ ~get_result.val.ok

(***************************************************************************)
(* C18                                                                     *)
(***************************************************************************)
ItemsEndpoint == <<"api", "items", get_table>>
ItemEndpoint(id) == <<"api", "item", get_table, id>>
EmptyObject == ValueMap(<<>>)

\* C18: the request Client::get sends is fixed by the selection: All sends
\* the body {} to the items endpoint, Filter(f) sends the serialization of f
\* to the items endpoint, Id(i) sends no body to the single-item endpoint;
\* so Filter of an empty filter sends what All sends.
C18_RequestBySelection ==
    request.some =>
        LET r == request.val
        IN  /\ selection.variant = "All" =>
                   /\ r.url = ItemsEndpoint
                   /\ r.body = Some(to_string(EmptyObject))
            /\ selection.variant = "Filter" =>
                   /\ r.url = ItemsEndpoint
                   /\ r.body.some
                   /\ LET document == r.body.val.document
                          f == selection.filter
                      IN  /\ document.kind = "Object"
                          /\ DOMAIN document.members = DOMAIN f
                          /\ \A c \in DOMAIN f : IsPairOf(document.members[c], f[c])
                   /\ selection.filter = FilterNew =>
                          r.body = Some(to_string(EmptyObject))
            /\ selection.variant = "Id" =>
                   /\ r.url = ItemEndpoint(selection.id)
                   /\ r.body = None

\* the request of a Filter selection with an empty filter has been sent
C18_Witness ==
    /\ gpc = "sent"
    /\ selection = SelectionFilter(FilterNew)
    /\ request.some

(***************************************************************************)
(* C19                                                                     *)
(***************************************************************************)
\* the stepwise from_vec returns what from_vec and into_trees are defined to
StepwiseAgrees ==
    /\ cpc \in {"map", "done"} => call_trees = into_trees(call_input).trees
    /\ cpc = "done" => call_defs = from_vec(call_input)

\* the recursion of construct_leaves and of pop_outer_leaves is never deeper
\* than the number of input tables
DepthBounded ==
    /\ depth.construct_leaves <= Len(call_input)
    /\ depth.pop_outer_leaves <= Len(call_input)

\* C19: from_vec, and into_trees within it, return for every input list,
\* whether its primary-key foreign keys form cycles, reference their own
\* table or reference no table of the list, and construct_leaves and
\* pop_outer_leaves never recurse deeper than the number of input tables.
C19_TerminatesWithinDepth == []DepthBounded /\ <>(cpc = "done")

\* from_vec has returned for three tables of which one references itself and
\* two reference each other, with a recursion as deep as the list is long
C19_Witness ==
    /\ cpc = "done"
    /\ Len(call_input) = 3
    /\ depth.construct_leaves = 3
    /\ depth.pop_outer_leaves = 3
    /\ \E i \in 1..3 : IsLeafOf(call_input[i], call_input[i])
    /\ \E i, j \in 1..3 :
           /\ i # j
           /\ IsLeafOf(call_input[i], call_input[j])
           /\ IsLeafOf(call_input[j], call_input[i])

(***************************************************************************)
(* C20                                                                     *)
(***************************************************************************)
\* C20: under every interleaving of the user's actions and the completions
\* of the requests in flight, from the startup state on, every message is
\* handled in a state of its own screen, so that no unreachable!() of
\* State::update or StateConnect::update is executed.
C20_NoUnreachable == panicked = None

(***************************************************************************)
(* C21                                                                     *)
(***************************************************************************)
\* the tables requests, and the row requests, in flight
TablesTasks == {i \in 1..Len(tasks) : tasks[i].api = "tables"}
GetTasks == {i \in 1..Len(tasks) : tasks[i].api = "get"}

\* C21: on the Connect screen at most one tables request is in flight, and
\* StateConnect.state is Requesting whenever one is, the request of startup
\* included (so that none can be issued on top of it).
C21_OneTablesRequest ==
    app.variant = "Connect" =>
        /\ Cardinality(TablesTasks) <= 1
        /\ TablesTasks # {} => app.state = Requesting

(***************************************************************************)
(* C22                                                                     *)
(***************************************************************************)
\* C22: on the View screen, whatever definitions from_vec gave and whatever
\* table buttons were pressed and answered, the identifier held in entries
\* is resolved by get of some definition of StateTable.tables, so that
\* get_selected_table is Some and its unwrap in the view cannot fail.
C22_SelectedTableResolves ==
    (app.variant = "View" /\ app.entries.some) =>
        /\ \E i \in 1..Len(app.tables) : get(app.tables[i], app.entries.val[1]).some
        /\ get_selected_table(app).some
        /\ get_selected_table(app).val.table = app.entries.val[1]

\* entries hold the rows of a leaf of a Family, whose base has another name
C22_Witness ==
    /\ app.variant = "View"
    /\ app.entries.some
    /\ \E i \in 1..Len(app.tables) :
           /\ app.tables[i].variant = "Family"
           /\ app.tables[i].base.table # app.entries.val[1]
           /\ get(app.tables[i], app.entries.val[1]).some

(***************************************************************************)
(* C23                                                                     *)
(***************************************************************************)
\* on the View screen the state is Requesting exactly while a row request is
\* in flight, there is never more than one, and a table button has a message
\* only while the state is Idle and its table is not the selected one
OneRowRequest ==
    app.variant = "View" =>
        /\ Cardinality(GetTasks) <= 1
        /\ app.state = Requesting <=> GetTasks # {}
        /\ \A i \in 1..Len(ViewedTables(app)) :
               view_table(app, ViewedTables(app)[i]).some =>
                   /\ app.state = Idle
                   /\ app.entries.some =>
                          app.entries.val[1] # ViewedTables(app)[i].table

\* a step on the View screen that handles a GetResponse answers the one row
\* request in flight, and entries become the rows under the identifier of
\* that request if it is Ok; every other step leaves entries as they are
EntriesFollowResponses ==
    (app.variant = "View" /\ app'.variant = "View") =>
        IF delivered'.val.variant = "GetResponse"
        THEN /\ \E i \in 1..Len(tasks) :
                    /\ GetTasks = {i}
                    /\ tasks[i].table = delivered'.val.table
                    /\ tasks' = Without(tasks, i)
             /\ IF delivered'.val.entries.ok
                THEN app'.entries =
                         Some(<<delivered'.val.table, delivered'.val.entries.val>>)
                ELSE app'.entries = app.entries
        ELSE app'.entries = app.entries

\* C23: on the View screen StateTable.state is Requesting exactly while one
\* row request is in flight; the buttons emit GetRequest only when Idle and
\* not selected, so at most one row request is in flight, every GetResponse
\* answers it, and the identifier in entries is that of the request whose
\* Ok response was handled last.
C23_OneRowRequestAtATime == []OneRowRequest /\ [][EntriesFollowResponses]_vars

\* the rows of one table are shown, another table was requested and its
\* request is in flight
C23_Witness ==
    /\ app.variant = "View"
    /\ app.entries.some
    /\ app.state = Requesting
    /\ \E i \in GetTasks : tasks[i].table # app.entries.val[1]

(***************************************************************************)
(* C24                                                                     *)
(***************************************************************************)
\* the tables request was answered: the View screen, idle and with no
\* entries, or the Connect screen, idle and with the error as its message
ConnectAnswered ==
    \/ app.variant = "View" /\ app.state = Idle /\ ~app.entries.some
    \/ app.variant = "Connect" /\ app.state = Idle /\ app.message.some

\* the row request was answered: the View screen is idle, with the rows of
\* the requested table as entries or with the error as its message
GetAnswered ==
    /\ app.variant = "View"
    /\ app.state = Idle
    /\ delivered.val.variant = "GetResponse"
    /\ IF delivered.val.entries.ok
       THEN app.entries = Some(<<delivered.val.table, delivered.val.entries.val>>)
       ELSE app.message = Some(delivered.val.entries.err)

\* C24: if every request that is issued completes, a state that is Requesting
\* is followed by one that is Idle: on the Connect screen by the View screen
\* or by the error message, on the View screen by the rows of the requested
\* table or by the error message.
C24_RequestingLeadsToIdle ==
    /\ (app.variant = "Connect" /\ app.state = Requesting) ~> ConnectAnswered
    /\ (app.variant = "View" /\ app.state = Requesting) ~> GetAnswered

====
